---- MODULE Spec2Model ----
(***************************************************************************)
(* Model of src/app.py, the Streamlit carbon footprint tracker.            *)
(*                                                                         *)
(* Streamlit runs the whole script top to bottom once per user             *)
(* interaction.  One script run is modelled as a short sequence of steps   *)
(* (pc): the "Calculate" button handler, the results / tips section, the   *)
(* outbound call made by get_gemini_response, and the tail of the script   *)
(* with the "Reset" button handler.                                        *)
(*                                                                         *)
(* Numbers.  Emission values are Python floats.  They are modelled as      *)
(* fixed-point integers counting hundredths (105.0 kg is 10500, the        *)
(* coefficient 0.21 is 21).  transport_km and electricity_kwh are Python   *)
(* ints (the widgets are created with int min_value/value/step) and stay   *)
(* plain integers; waste_kg is a float and is held in hundredths.          *)
(* The arithmetic is exact on the values used here; binary floating-point  *)
(* rounding is not modelled.                                               *)
(***************************************************************************)
EXTENDS Integers, Sequences, FiniteSets

VARIABLES
    footprint_history,  \* st.session_state.footprint_history (list of records)
    current_footprint,  \* st.session_state.current_footprint (record or None)
    today,              \* datetime.date.today(), as a day number
    pc,                 \* position of the script run
    button,             \* the button whose click started the current run
    args,               \* arguments of this run's calculate_footprint call
    ret,                \* (total_footprint, breakdown) it returned
    top_categories,     \* the categories joined into top_categories
    gemini_prompt,      \* prompt handed to get_gemini_response in this run
    ai_tips,            \* outcome of get_gemini_response in this run
    tips_info           \* the st.info of the tips section's else branch was shown

vars == <<footprint_history, current_footprint, today, pc, button, args, ret,
          top_categories, gemini_prompt, ai_tips, tips_info>>

\* Bounds of the model.
MaxHistory == 2
MaxDay == 1

\* Python's None.
None == [type |-> "NoneType"]

\* A call either returns a value or raises an exception.
Return(v) == [returned |-> v]
Raise(e) == [raised |-> e]

(***************************************************************************)
(* Emission factors and the calculator                                     *)
(***************************************************************************)

\* EMISSION_FACTORS, in hundredths of a kg CO2e per unit.
EMISSION_FACTORS ==
    [transportation |-> [gasoline_car_km |-> 21,
                         electric_car_km |-> 5,
                         public_transport_km |-> 4,
                         flight_km |-> 15],
     electricity |-> [kwh |-> 23],
     diet |-> [high_meat |-> 250,
               medium_meat |-> 150,
               low_meat |-> 80,
               vegetarian |-> 50,
               vegan |-> 30],
     waste |-> [kg_waste |-> 20]]

\* float * float on fixed-point operands (both in hundredths).
FMul(a, b) == (a * b) \div 100

\* The transport chain with the Flight branch reading the public transport
\* coefficient.
transport_co2e_FlightWrongFactor(transport_km, transport_type) ==
    IF transport_type = "Gasoline Car"
    THEN transport_km * EMISSION_FACTORS.transportation.gasoline_car_km
    ELSE IF transport_type = "Electric Car"
    THEN transport_km * EMISSION_FACTORS.transportation.electric_car_km
    ELSE IF transport_type \in {"Public Transport", "Flight"}
    THEN transport_km * EMISSION_FACTORS.transportation.public_transport_km
    ELSE 0

\* The if/elif chain over transport_type; no else branch: the initial 0 stays.
transport_co2e(transport_km, transport_type) ==
    IF transport_type = "Gasoline Car"
    THEN transport_km * EMISSION_FACTORS.transportation.gasoline_car_km
    ELSE IF transport_type = "Electric Car"
    THEN transport_km * EMISSION_FACTORS.transportation.electric_car_km
    ELSE IF transport_type = "Public Transport"
    THEN transport_km * EMISSION_FACTORS.transportation.public_transport_km
    ELSE IF transport_type = "Flight"
    THEN transport_km * EMISSION_FACTORS.transportation.flight_km
    ELSE 0

\* The if/elif chain over diet_choice; no else branch: the initial 0 stays.
diet_co2e(diet_choice) ==
    IF diet_choice = "High Meat (Daily)"
    THEN EMISSION_FACTORS.diet.high_meat * 30
    ELSE IF diet_choice = "Medium Meat (Few times/week)"
    THEN EMISSION_FACTORS.diet.medium_meat * 30
    ELSE IF diet_choice = "Low Meat (Once/week)"
    THEN EMISSION_FACTORS.diet.low_meat * 30
    ELSE IF diet_choice = "Vegetarian"
    THEN EMISSION_FACTORS.diet.vegetarian * 30
    ELSE IF diet_choice = "Vegan"
    THEN EMISSION_FACTORS.diet.vegan * 30
    ELSE 0

\* calculate_footprint without `total_co2e += waste_co2e`.
calculate_footprint_DropsWaste(transport_km, transport_type, electricity_kwh, diet_choice, waste_kg) ==
    LET t == transport_co2e(transport_km, transport_type)
        e == electricity_kwh * EMISSION_FACTORS.electricity.kwh
        d == diet_co2e(diet_choice)
        w == FMul(waste_kg, EMISSION_FACTORS.waste.kg_waste)
    IN  [total |-> 0 + t + e + d,
         breakdown |-> << <<"Transportation", t>>, <<"Electricity", e>>,
                          <<"Diet", d>>, <<"Waste", w>> >>]

\* calculate_footprint: the breakdown dict is a sequence of <<key, value>>
\* pairs in insertion order; total_co2e is accumulated as in the code.
calculate_footprint(transport_km, transport_type, electricity_kwh, diet_choice, waste_kg) ==
    LET t == transport_co2e(transport_km, transport_type)
        total1 == 0 + t
        e == electricity_kwh * EMISSION_FACTORS.electricity.kwh
        total2 == total1 + e
        d == diet_co2e(diet_choice)
        total3 == total2 + d
        w == FMul(waste_kg, EMISSION_FACTORS.waste.kg_waste)
        total4 == total3 + w
    IN  [total |-> total4,
         breakdown |-> << <<"Transportation", t>>, <<"Electricity", e>>,
                          <<"Diet", d>>, <<"Waste", w>> >>]

(***************************************************************************)
(* The tips section                                                        *)
(***************************************************************************)

\* An insertion that puts x in front of items of equal value.
RECURSIVE InsertDescending_Unstable(_, _)
InsertDescending_Unstable(s, x) ==
    IF s = <<>> THEN <<x>>
    ELSE IF Head(s)[2] <= x[2] THEN <<x>> \o s
    ELSE <<Head(s)>> \o InsertDescending_Unstable(Tail(s), x)

\* Insert item x into a list already in non-increasing order of value,
\* behind every item whose value is not smaller.
RECURSIVE InsertDescending(_, _)
InsertDescending(s, x) ==
    IF s = <<>> THEN <<x>>
    ELSE IF Head(s)[2] < x[2] THEN <<x>> \o s
    ELSE <<Head(s)>> \o InsertDescending(Tail(s), x)

\* sorted(items, key=lambda item: item[1], reverse=True): a stable sort,
\* items of equal value keep the order they had in items.
RECURSIVE SortedFrom(_, _, _)
SortedFrom(items, i, acc) ==
    IF i > Len(items) THEN acc
    ELSE SortedFrom(items, i + 1, InsertDescending(acc, items[i]))

sorted_breakdown(current_breakdown) == SortedFrom(current_breakdown, 1, <<>>)

\* [cat for cat, co2 in sorted_breakdown if co2 > 0]
RECURSIVE PositiveCategories(_)
PositiveCategories(s) ==
    IF s = <<>> THEN <<>>
    ELSE IF Head(s)[2] > 0
    THEN <<Head(s)[1]>> \o PositiveCategories(Tail(s))
    ELSE PositiveCategories(Tail(s))

\* top_categories: ", ".join(...) of the category labels, kept as the list
\* of labels (the joined string is empty exactly when the list is).
TopCategories(current_breakdown) ==
    PositiveCategories(sorted_breakdown(current_breakdown))

\* The tips section without the emptiness test.
ShouldRequestTips_Always(categories) == TRUE

\* `if top_categories:`
ShouldRequestTips(categories) == categories # <<>>

(***************************************************************************)
(* get_gemini_response                                                     *)
(***************************************************************************)

\* JSON objects the endpoint may answer with (response.json() is a dict).
GeminiResults ==
    { [candidates |-> << [content |-> [parts |-> << [text |-> "tips"] >>]] >>],
      [candidates |-> << [content |-> [parts |-> << [inlineData |-> "blob"] >>]] >>],
      [candidates |-> << [content |-> [parts |-> << >>]] >>],
      [candidates |-> << [finishReason |-> "SAFETY"] >>],
      [candidates |-> << >>],
      [promptFeedback |-> "BLOCKED"] }

\* What the network does with the POST.  post: the exception requests.post
\* raises, or "none"; status: the HTTP status; json: what response.json()
\* does, "dict" (result is the JSON object), "list" (valid JSON that is no
\* object), or the exception class it raises on an undecodable body (which
\* class depends on the installed requests version).
HttpOutcomes ==
    { [post |-> p, status |-> 0, json |-> "none", result |-> None] :
            p \in {"ConnectionError", "Timeout"} }
    \cup { [post |-> "none", status |-> s, json |-> "none", result |-> None] :
            s \in {403, 500} }
    \cup { [post |-> "none", status |-> 200, json |-> j, result |-> None] :
            j \in {"requests.JSONDecodeError", "json.JSONDecodeError", "list"} }
    \cup { [post |-> "none", status |-> 200, json |-> "dict", result |-> r] :
            r \in GeminiResults }

\* Exception classes: isinstance(e, requests.exceptions.RequestException)
IsRequestException(e) ==
    e \in {"ConnectionError", "Timeout", "HTTPError", "requests.JSONDecodeError"}

\* isinstance(e, json.JSONDecodeError)
IsJSONDecodeError(e) ==
    e \in {"json.JSONDecodeError", "requests.JSONDecodeError"}

\* The condition of the `if` over result (a dict): every .get() is truthy.
HasParts(result) ==
    /\ "candidates" \in DOMAIN result
    /\ Len(result.candidates) > 0
    /\ "content" \in DOMAIN result.candidates[1]
    /\ "parts" \in DOMAIN result.candidates[1].content
    /\ Len(result.candidates[1].content.parts) > 0

\* The body of the try block: returns a string or raises.
GeminiTryBody(http) ==
    IF http.post # "none" THEN Raise(http.post)
    ELSE IF http.status >= 400 THEN Raise("HTTPError")
    ELSE IF http.json \in {"requests.JSONDecodeError", "json.JSONDecodeError"}
    THEN Raise(http.json)
    ELSE IF http.json = "list" THEN Raise("AttributeError")
    ELSE IF HasParts(http.result)
    THEN LET part == http.result.candidates[1].content.parts[1]
         IN  IF "text" \in DOMAIN part THEN Return(part.text)
             ELSE Return("No text content found.")
    ELSE Return("No valid response or content from Gemini API.")

\* get_gemini_response without the final `except Exception` clause.
get_gemini_response_NoCatchAll(http) ==
    LET body == GeminiTryBody(http)
    IN  IF "returned" \in DOMAIN body THEN body
        ELSE IF IsRequestException(body.raised)
        THEN Return("Error calling Gemini API")
        ELSE IF IsJSONDecodeError(body.raised)
        THEN Return("Error decoding JSON response from Gemini API.")
        ELSE body

\* get_gemini_response: the try block and its three except clauses, in order.
get_gemini_response(http) ==
    LET body == GeminiTryBody(http)
    IN  IF "returned" \in DOMAIN body THEN body
        ELSE IF IsRequestException(body.raised)
        THEN Return("Error calling Gemini API")
        ELSE IF IsJSONDecodeError(body.raised)
        THEN Return("Error decoding JSON response from Gemini API.")
        ELSE Return("An unexpected error occurred")

(***************************************************************************)
(* Inputs                                                                  *)
(***************************************************************************)

\* Options of the "Primary mode of transport" selectbox.
TransportOptions == {"Gasoline Car", "Electric Car", "Public Transport", "Flight"}

\* Options of the "Your typical diet" selectbox.
DietOptions == {"High Meat (Daily)", "Medium Meat (Few times/week)",
                "Low Meat (Once/week)", "Vegetarian", "Vegan"}

\* Values the three number_input widgets deliver (each has min_value 0).
WidgetKm == {0, 500}
WidgetKwh == {300}
WidgetWaste == {1500}

\* Arguments calculate_footprint accepts when called directly: the function
\* itself puts no constraint on the numbers or on the labels.
DirectKm == {-10, 0, 23, 500, 1000}
DirectKwh == {-5, 0, 21, 300}
DirectWaste == {-100, 0, 50, 1500, 7500}
DirectTransport == TransportOptions \cup {"Bicycle"}
DirectDiet == DietOptions \cup {"Keto"}

Arguments(km, tt, kwh, dc, wkg) ==
    [transport_km |-> km, transport_type |-> tt, electricity_kwh |-> kwh,
     diet_choice |-> dc, waste_kg |-> wkg]

(***************************************************************************)
(* The script                                                              *)
(***************************************************************************)

\* Session state initialisation, before the first interaction.
Init ==
    /\ footprint_history = <<>>
    /\ current_footprint = None
    /\ today = 0
    /\ pc = "idle"
    /\ button = "none"
    /\ args = None
    /\ ret = None
    /\ top_categories = <<>>
    /\ gemini_prompt = None
    /\ ai_tips = None
    /\ tips_info = FALSE

\* A script run starts: nothing of the previous run's page is kept.
StartRun(b) ==
    /\ button' = b
    /\ pc' = "main"
    /\ top_categories' = <<>>
    /\ gemini_prompt' = None
    /\ ai_tips' = None
    /\ tips_info' = FALSE

\* The record the Calculate handler builds from calculate_footprint's result.
FootprintRecord(date, result) ==
    [date |-> date, total |-> result.total, breakdown |-> result.breakdown]

\* The handler inserting the new record at the front of the history.
CalculateHandler_Prepends(km, tt, kwh, dc, wkg) ==
    LET result == calculate_footprint(km, tt, kwh, dc, wkg)
        record == FootprintRecord(today, result)
    IN  /\ args' = Arguments(km, tt, kwh, dc, wkg)
        /\ ret' = result
        /\ current_footprint' = record
        /\ footprint_history' = <<record>> \o footprint_history

\* The handler appending the record without storing it as current_footprint.
CalculateHandler_ForgetsCurrent(km, tt, kwh, dc, wkg) ==
    LET result == calculate_footprint(km, tt, kwh, dc, wkg)
        record == FootprintRecord(today, result)
    IN  /\ args' = Arguments(km, tt, kwh, dc, wkg)
        /\ ret' = result
        /\ UNCHANGED current_footprint
        /\ footprint_history' = Append(footprint_history, record)

\* `if st.sidebar.button("Calculate My Carbon Footprint")`: the handler with
\* the values the widgets (or a direct caller) deliver.
CalculateHandler(km, tt, kwh, dc, wkg) ==
    LET result == calculate_footprint(km, tt, kwh, dc, wkg)
        record == FootprintRecord(today, result)
    IN  /\ args' = Arguments(km, tt, kwh, dc, wkg)
        /\ ret' = result
        /\ current_footprint' = record
        /\ footprint_history' = Append(footprint_history, record)

\* The user clicks Calculate: a run whose sidebar handler fires.
Calculate ==
    /\ pc = "idle"
    /\ Len(footprint_history) < MaxHistory
    /\ \E km \in WidgetKm, tt \in TransportOptions, kwh \in WidgetKwh,
          dc \in DietOptions, wkg \in WidgetWaste :
            CalculateHandler(km, tt, kwh, dc, wkg)
    /\ StartRun("calculate")
    /\ UNCHANGED today

\* The user changes a widget: a run in which no button is pressed.
WidgetRerun ==
    /\ pc = "idle"
    /\ StartRun("none")
    /\ args' = None
    /\ ret' = None
    /\ UNCHANGED <<footprint_history, current_footprint, today>>

\* The user clicks Reset: the button sits at the end of the script, so the
\* run first renders the page from the state as it is.
ResetClick ==
    /\ pc = "idle"
    /\ StartRun("reset")
    /\ args' = None
    /\ ret' = None
    /\ UNCHANGED <<footprint_history, current_footprint, today>>

\* `if st.session_state.current_footprint:` ... the tips section up to the
\* call of get_gemini_response, or its else branch.
TipsSection ==
    /\ pc = "main"
    /\ IF current_footprint # None
       THEN LET current_total_footprint == current_footprint.total
                current_breakdown == current_footprint.breakdown
                categories == TopCategories(current_breakdown)
            IN  /\ top_categories' = categories
                /\ IF ShouldRequestTips(categories)
                   THEN /\ gemini_prompt' = [total |-> current_total_footprint,
                                             categories |-> categories]
                        /\ tips_info' = FALSE
                        /\ pc' = "call"
                   ELSE /\ gemini_prompt' = None
                        /\ tips_info' = TRUE
                        /\ pc' = "tail"
       ELSE /\ pc' = "tail"
            /\ UNCHANGED <<top_categories, gemini_prompt, tips_info>>
    /\ UNCHANGED <<footprint_history, current_footprint, today, button, args,
                   ret, ai_tips>>

\* ai_tips = get_gemini_response(gemini_prompt); st.markdown(ai_tips).
\* An exception leaving the call would end the script run.
GeminiResponse ==
    /\ pc = "call"
    /\ \E http \in HttpOutcomes :
          LET r == get_gemini_response(http)
          IN  /\ ai_tips' = r
              /\ pc' = IF "returned" \in DOMAIN r THEN "tail" ELSE "idle"
    /\ UNCHANGED <<footprint_history, current_footprint, today, button, args,
                   ret, top_categories, gemini_prompt, tips_info>>

\* The Reset handler clearing the history only.
ResetHandler_KeepsCurrent ==
    /\ footprint_history' = <<>>
    /\ UNCHANGED current_footprint

\* The body of `if st.button("Start Fresh / Reset Data")`.
ResetHandler ==
    /\ footprint_history' = <<>>
    /\ current_footprint' = None

\* The Reset button was clicked: the handler runs and st.experimental_rerun()
\* stops the script (the st.success after it is never reached).
Reset ==
    /\ pc = "tail"
    /\ button = "reset"
    /\ ResetHandler
    /\ pc' = "rerun"
    /\ UNCHANGED <<today, button, args, ret, top_categories, gemini_prompt,
                   ai_tips, tips_info>>

\* The rerun requested by the Reset handler: a run with no button pressed.
RerunScript ==
    /\ pc = "rerun"
    /\ StartRun("none")
    /\ UNCHANGED <<footprint_history, current_footprint, today, args, ret>>

\* The script reaches its end with the Reset button not pressed: its local
\* variables are gone, the session state stays.
EndRun ==
    /\ pc = "tail"
    /\ button # "reset"
    /\ pc' = "idle"
    /\ button' = "none"
    /\ args' = None
    /\ ret' = None
    /\ top_categories' = <<>>
    /\ gemini_prompt' = None
    /\ ai_tips' = None
    /\ tips_info' = FALSE
    /\ UNCHANGED <<footprint_history, current_footprint, today>>

\* Midnight passes between two interactions.
NextDay ==
    /\ pc = "idle"
    /\ today < MaxDay
    /\ today' = today + 1
    /\ UNCHANGED <<footprint_history, current_footprint, pc, button, args, ret,
                   top_categories, gemini_prompt, ai_tips, tips_info>>

Next ==
    \/ Calculate
    \/ WidgetRerun
    \/ ResetClick
    \/ TipsSection
    \/ GeminiResponse
    \/ Reset
    \/ RerunScript
    \/ EndRun
    \/ NextDay

Spec == Init /\ [][Next]_vars

(***************************************************************************)
(* The same script driven with arguments that need not come from the       *)
(* widgets: calculate_footprint itself accepts any number and any label.   *)
(* The session holds at most one record at a time.                         *)
(***************************************************************************)

DirectCalculate ==
    /\ pc = "idle"
    /\ footprint_history = <<>>
    /\ \E km \in DirectKm, tt \in DirectTransport, kwh \in DirectKwh,
          dc \in DirectDiet, wkg \in DirectWaste :
            CalculateHandler(km, tt, kwh, dc, wkg)
    /\ StartRun("calculate")
    /\ UNCHANGED today

NextDirect ==
    \/ DirectCalculate
    \/ WidgetRerun
    \/ ResetClick
    \/ TipsSection
    \/ GeminiResponse
    \/ Reset
    \/ RerunScript
    \/ EndRun
    \/ NextDay

SpecDirect == Init /\ [][NextDirect]_vars

(***************************************************************************)
(* Properties                                                              *)
(***************************************************************************)

\* sum(breakdown.values())
RECURSIVE SumValues(_)
SumValues(breakdown) ==
    IF breakdown = <<>> THEN 0
    ELSE Head(breakdown)[2] + SumValues(Tail(breakdown))

\* The contribution a breakdown records for a category.
ValueOf(breakdown, cat) ==
    LET i == CHOOSE k \in 1..Len(breakdown) : breakdown[k][1] = cat
    IN  breakdown[i][2]

CategoryOrder == <<"Transportation", "Electricity", "Diet", "Waste">>

PositionOf(cat) == CHOOSE k \in 1..Len(CategoryOrder) : CategoryOrder[k] = cat

\* A Calculate run has called calculate_footprint with these arguments.
Called == args # None

UnknownLabel ==
    \/ args.transport_type \notin TransportOptions
    \/ args.diet_choice \notin DietOptions

NegativeNumber ==
    \/ args.transport_km < 0
    \/ args.electricity_kwh < 0
    \/ args.waste_kg < 0

\* C1: a calculation with a transport or diet label that is not recognised
\* fails with UnknownVariant: it produces no (total, breakdown) result and
\* footprint_history stays as it was (empty, in a fresh session).
C1_UnknownVariantFails ==
    (Called /\ UnknownLabel) => (ret = None /\ footprint_history = <<>>)

\* C2: a negative numeric input makes calculate_footprint fail with
\* InvalidInput: no total or breakdown is returned and no record is created.
C2_NegativeInputFails ==
    (Called /\ NegativeNumber) => (ret = None /\ footprint_history = <<>>)

\* C3: the total calculate_footprint returns is the sum of the four
\* breakdown values, and so is the total of every record in
\* footprint_history and of current_footprint.
C3_TotalIsSumOfBreakdown ==
    /\ ret # None => ret.total = SumValues(ret.breakdown)
    /\ current_footprint # None =>
           current_footprint.total = SumValues(current_footprint.breakdown)
    /\ \A i \in 1..Len(footprint_history) :
           footprint_history[i].total = SumValues(footprint_history[i].breakdown)

C3_Witness ==
    /\ Len(footprint_history) >= 2
    /\ footprint_history[1].total # footprint_history[2].total
    /\ ret # None
    /\ ret.total > 0

\* C4: a Calculate step appends exactly one record: the length grows by
\* one, the last element is the record just computed (today's date, the
\* returned total and breakdown), and the earlier records keep their place.
C4_CalculateAppendsOne ==
    [][(pc = "idle" /\ pc' = "main" /\ button' = "calculate") =>
          /\ Len(footprint_history') = Len(footprint_history) + 1
          /\ footprint_history'[Len(footprint_history')] =
                 [date |-> today, total |-> ret'.total, breakdown |-> ret'.breakdown]
          /\ SubSeq(footprint_history', 1, Len(footprint_history)) = footprint_history
      ]_vars

C4_Witness ==
    /\ pc = "main"
    /\ button = "calculate"
    /\ Len(footprint_history) = 2
    /\ footprint_history[1] # footprint_history[2]
    /\ footprint_history[2].total = ret.total

\* C5: after the Reset handler has run, footprint_history is empty and
\* current_footprint is None, as in the initial session state.
C5_ResetClears ==
    pc = "rerun" => (footprint_history = <<>> /\ current_footprint = None)

\* Reset ran in a script run that had rendered the tips of a stored result.
C5_Witness ==
    /\ pc = "rerun"
    /\ "returned" \in DOMAIN ai_tips
    /\ footprint_history = <<>>

\* The current result has no category with a contribution above zero.
NoPositiveContribution ==
    \A i \in 1..Len(current_footprint.breakdown) :
        current_footprint.breakdown[i][2] <= 0

\* The script run is past the tips section.
PastTips == pc \in {"call", "tail", "rerun"}

\* C6: in a run whose result has no category with contribution > 0 the
\* advisory call is not made and the "no suggestions" message is shown; in a
\* run with a current result that has such a category the call is made.
C6_AdvisoryOnlyWithCategories ==
    (PastTips /\ current_footprint # None) =>
        IF NoPositiveContribution
        THEN gemini_prompt = None /\ ai_tips = None /\ tips_info
        ELSE gemini_prompt # None /\ ~tips_info
             /\ (pc # "call" => ai_tips # None)

C6_Witness ==
    /\ pc = "tail"
    /\ current_footprint # None
    /\ NoPositiveContribution
    /\ tips_info
    /\ gemini_prompt = None

\* C7: whatever the network does, the step that runs get_gemini_response
\* yields a string (nothing is raised) and leaves footprint_history and
\* current_footprint as they were.
C7_AdvisoryNeverAltersState ==
    [][pc = "call" =>
          /\ "returned" \in DOMAIN ai_tips'
          /\ ai_tips'.returned \in STRING
          /\ footprint_history' = footprint_history
          /\ current_footprint' = current_footprint
      ]_vars

\* The advisory call failed right after a calculation appended its record.
C7_Witness ==
    /\ pc = "tail"
    /\ button = "calculate"
    /\ ai_tips = Return("An unexpected error occurred")
    /\ footprint_history # <<>>
    /\ current_footprint = footprint_history[Len(footprint_history)]

\* The coefficients as the claim states them, in hundredths.
ClaimedTransportCoefficient(label) ==
    CASE label = "Gasoline Car" -> 21
      [] label = "Electric Car" -> 5
      [] label = "Public Transport" -> 4
      [] label = "Flight" -> 15

ClaimedDailyDiet(label) ==
    CASE label = "High Meat (Daily)" -> 250
      [] label = "Medium Meat (Few times/week)" -> 150
      [] label = "Low Meat (Once/week)" -> 80
      [] label = "Vegetarian" -> 50
      [] label = "Vegan" -> 30

\* C8: for non-negative inputs and recognised labels the breakdown has the
\* keys Transportation, Electricity, Diet, Waste with distance x transport
\* coefficient, kWh x 0.23, daily diet coefficient x 30 and kg x 0.2;
\* 500 km gasoline car, 300 kWh, vegetarian, 15 kg gives 105, 69, 15, 3 and
\* 192; 1000 km flight, 0 kWh, high meat, 0 kg gives 150, 0, 75, 0 and 225.
C8_BreakdownValues ==
    (Called /\ ~UnknownLabel /\ ~NegativeNumber) =>
        /\ ret # None
        /\ ret.breakdown =
             << <<"Transportation",
                  args.transport_km * ClaimedTransportCoefficient(args.transport_type)>>,
                <<"Electricity", args.electricity_kwh * 23>>,
                <<"Diet", ClaimedDailyDiet(args.diet_choice) * 30>>,
                <<"Waste", (args.waste_kg * 20) \div 100>> >>
        /\ args = Arguments(500, "Gasoline Car", 300, "Vegetarian", 1500) =>
             /\ ret.breakdown = << <<"Transportation", 10500>>, <<"Electricity", 6900>>,
                                   <<"Diet", 1500>>, <<"Waste", 300>> >>
             /\ ret.total = 19200
        /\ args = Arguments(1000, "Flight", 0, "High Meat (Daily)", 0) =>
             /\ ret.breakdown = << <<"Transportation", 15000>>, <<"Electricity", 0>>,
                                   <<"Diet", 7500>>, <<"Waste", 0>> >>
             /\ ret.total = 22500

C8_Witness ==
    /\ Called
    /\ args = Arguments(1000, "Flight", 0, "High Meat (Daily)", 0)
    /\ ret.total = 22500

\* C9: the category list handed to the advisory call holds exactly the
\* categories of the current breakdown with a contribution above zero, each
\* once, in non-increasing order of contribution, equal contributions in
\* the order Transportation, Electricity, Diet, Waste.
C9_CategoriesSortedAndPositive ==
    (gemini_prompt # None /\ current_footprint # None) =>
        LET L == gemini_prompt.categories
            b == current_footprint.breakdown
        IN  /\ \A i \in 1..Len(L) : ValueOf(b, L[i]) > 0
            /\ \A k \in 1..Len(b) :
                   b[k][2] > 0 => \E i \in 1..Len(L) : L[i] = b[k][1]
            /\ \A i, j \in 1..Len(L) : i # j => L[i] # L[j]
            /\ \A i, j \in 1..Len(L) : i < j =>
                   \/ ValueOf(b, L[i]) > ValueOf(b, L[j])
                   \/ /\ ValueOf(b, L[i]) = ValueOf(b, L[j])
                      /\ PositionOf(L[i]) < PositionOf(L[j])

\* A tie between two categories, behind a larger one, with a zero category.
C9_Witness ==
    /\ gemini_prompt # None
    /\ current_footprint # None
    /\ gemini_prompt.categories = <<"Diet", "Transportation", "Electricity">>
    /\ ValueOf(current_footprint.breakdown, "Transportation")
         = ValueOf(current_footprint.breakdown, "Electricity")
    /\ ValueOf(current_footprint.breakdown, "Waste") = 0

\* C10: current_footprint is None exactly when footprint_history is empty,
\* and otherwise it is the last element of footprint_history.
C10_CurrentIsLatest ==
    /\ current_footprint = None <=> footprint_history = <<>>
    /\ footprint_history # <<>> =>
           current_footprint = footprint_history[Len(footprint_history)]

C10_Witness ==
    /\ Len(footprint_history) = 2
    /\ footprint_history[1] # footprint_history[2]
    /\ current_footprint = footprint_history[2]
    /\ pc = "idle"

====
